---- MODULE Spec2Model ----
(***************************************************************************)
(* Model of modulo3/main.py: a script that loads salaries.csv with pandas, *)
(* derives Enum classes from the categorical columns, creates the SQLite   *)
(* table `salaries`, appends the DataFrame to it with to_sql and runs one  *)
(* grouped aggregation in three ways (SQL text, read_sql_query, ORM).      *)
(*                                                                         *)
(* Strings are sequences of code points (Python compares and sorts str by  *)
(* code point).  A missing cell (NaN / None) is the value None.            *)
(*                                                                         *)
(* Three specifications share the variables:                               *)
(*   SpecEnum  criar_enum_dinamico applied to one column                   *)
(*   SpecDate  parse_date applied to one cell                              *)
(*   Spec      the script, run one or more times against the same store    *)
(***************************************************************************)
EXTENDS Integers, Sequences, FiniteSets, TLC

VARIABLES
    pc,              \* position of the script / of the function under study
                     \* (SpecEnum: with whether the column was rearranged)
    valores,         \* SpecEnum: the column handed to criar_enum_dinamico
    membros,         \* SpecEnum: the dict built by the loop (label, value) pairs
    enum,            \* SpecEnum: what PyEnum(nome_enum, membros) gave
    anterior,        \* SpecEnum: membros and enum of the previous call, if any
    date_str,        \* SpecDate: the cell handed to parse_date
    partes,          \* SpecDate: how the cell was written (its fields)
    data,            \* SpecDate: what parse_date returned
    csv,             \* Spec: contents of salaries.csv
    df,              \* Spec: the DataFrame
    enums,           \* Spec: SexEnum, DesignationEnum, UnitEnum
    tabelas,         \* Spec: names of the tables of salarios.db
    salaries,        \* Spec: rows of the table salaries, in insertion order
    result,          \* Spec: what the three queries returned
    erro,            \* Spec: the exception that ended the run, "" if none
    execucoes        \* Spec: how many times the script has been started

vars == <<pc, valores, membros, enum, anterior, date_str, partes, data,
          csv, df, enums, tabelas, salaries, result, erro, execucoes>>

enumVars == <<valores, membros, enum, anterior>>
dateVars == <<date_str, partes, data>>
scriptVars == <<csv, df, enums, tabelas, salaries, result, erro, execucoes>>

----------------------------------------------------------------------------
(* Bounds *)

\* longest raw value of the one-cell columns
MaxLen == 4
\* longest column built from SampleValues
MaxCol == 3
\* most data rows of salaries.csv
MaxRows == 2
\* how many times the script is started against the same salarios.db
MaxRuns == 2

----------------------------------------------------------------------------
(* Values *)

\* NaN / None in a cell of text or of dates
None == <<-1>>

\* ' ', '-', '1', 'A', '_', 'a', 'e-acute'
Alphabet == {32, 45, 49, 65, 95, 97, 233}

RECURSIVE StringsOfLen(_)
StringsOfLen(n) ==
    IF n = 0 THEN {<<>>}
    ELSE {Append(s, c) : s \in StringsOfLen(n - 1), c \in Alphabet}

Strings == UNION {StringsOfLen(n) : n \in 0..MaxLen}

\* "A 1", "A-1", "A_1", "A", "a", "-a-", " a ", "--a--", "" and a missing cell
SampleValues ==
    { <<65, 32, 49>>, <<65, 45, 49>>, <<65, 95, 49>>, <<65>>, <<97>>,
      <<45, 97, 45>>, <<32, 97, 32>>, <<45, 45, 97, 45, 45>>, <<>>, None }

RECURSIVE ColumnsOfLen(_)
ColumnsOfLen(n) ==
    IF n = 0 THEN {<<>>}
    ELSE {Append(s, v) : s \in ColumnsOfLen(n - 1), v \in SampleValues}

Columns ==
    {<<s>> : s \in Strings} \cup UNION {ColumnsOfLen(n) : n \in 0..MaxCol}

----------------------------------------------------------------------------
(* re.sub(r"\W|^(?=\d)", "_", valor).upper() *)

\* \d, restricted to the code points below 256
IsDigit(c) == c \in 48..57

\* \w on str patterns: alphanumeric or underscore (code points below 256)
IsWord(c) ==
    \/ IsDigit(c)
    \/ c \in 65..90
    \/ c \in 97..122
    \/ c = 95
    \/ c \in 192..214
    \/ c \in 216..246
    \/ c \in 248..254

\* str.upper() on one character
UpperChar(c) ==
    IF c \in 97..122 \/ c \in 224..246 \/ c \in 248..254 THEN c - 32 ELSE c

Upper(s) == [i \in 1..Len(s) |-> UpperChar(s[i])]

\* The scan of re.sub from position i: at each position the alternative \W
\* is tried first and replaces that one character; otherwise, at the start
\* of the string only, the empty match ^(?=\d) puts "_" before a digit.
RECURSIVE ReSubFrom(_, _)
ReSubFrom(s, i) ==
    IF i > Len(s) THEN <<>>
    ELSE IF ~IsWord(s[i]) THEN <<95>> \o ReSubFrom(s, i + 1)
    ELSE IF i = 1 /\ IsDigit(s[i]) THEN <<95, s[i]>> \o ReSubFrom(s, i + 1)
    ELSE <<s[i]>> \o ReSubFrom(s, i + 1)

\* variant: one "_" for each run of separators,
\* the leading digit replaced
RECURSIVE CollapseFrom(_, _)
CollapseFrom(s, i) ==
    IF i > Len(s) THEN <<>>
    ELSE IF ~IsWord(s[i]) \/ (i = 1 /\ IsDigit(s[i]))
         THEN IF i > 1 /\ ~IsWord(s[i - 1])
              THEN CollapseFrom(s, i + 1)
              ELSE <<95>> \o CollapseFrom(s, i + 1)
    ELSE <<s[i]>> \o CollapseFrom(s, i + 1)

ChaveCollapsing(valor) == Upper(CollapseFrom(valor, 1))

ChaveNoUpper(valor) == ReSubFrom(valor, 1)

\* line 72: chave = re.sub(...).upper()
Chave(valor) == Upper(ReSubFrom(valor, 1))

----------------------------------------------------------------------------
(* criar_enum_dinamico *)

\* str comparison: lexicographic by code point
StrLess(a, b) ==
    \E k \in 1..(Len(a) + 1) :
        /\ k <= Len(b)
        /\ \A j \in 1..(k - 1) : a[j] = b[j]
        /\ (k = Len(a) + 1 \/ a[k] < b[k])

RECURSIVE Sorted(_)
Sorted(S) ==
    IF S = {} THEN <<>>
    ELSE LET m == CHOOSE x \in S : \A y \in S \ {x} : StrLess(x, y)
         IN  <<m>> \o Sorted(S \ {m})

\* the column in the order given, without NaN and without repeats
RECURSIVE Unsorted(_, _)
Unsorted(col, i) ==
    IF i > Len(col) THEN <<>>
    ELSE IF col[i] = None \/ \E j \in 1..(i - 1) : col[j] = col[i]
         THEN Unsorted(col, i + 1)
         ELSE <<col[i]>> \o Unsorted(col, i + 1)

ValoresUnicosUnsorted(col) == Unsorted(col, 1)

\* line 68: sorted({str(v) for v in valores if pd.notna(v)})
ValoresUnicos(col) ==
    Sorted({col[i] : i \in {j \in DOMAIN col : col[j] # None}})

DictAppend(d, chave, valor) == Append(d, <<chave, valor>>)

\* line 73: membros[chave] = valor (a dict keeps the place of a key it has)
DictSet(d, chave, valor) ==
    IF \E i \in DOMAIN d : d[i][1] = chave
    THEN [i \in DOMAIN d |-> IF d[i][1] = chave THEN <<chave, valor>> ELSE d[i]]
    ELSE Append(d, <<chave, valor>>)

\* lines 69-73: the loop over valores_unicos
RECURSIVE Loop(_, _, _)
Loop(unicos, i, d) ==
    IF i > Len(unicos) THEN d
    ELSE Loop(unicos, i + 1, DictSet(d, Chave(unicos[i]), unicos[i]))

Membros(col) == Loop(ValoresUnicos(col), 1, <<>>)

\* enum._is_sunder and enum._is_dunder
IsSunder(n) ==
    /\ Len(n) > 2
    /\ n[1] = 95 /\ n[Len(n)] = 95
    /\ n[2] # 95 /\ n[Len(n) - 1] # 95

IsDunder(n) ==
    /\ Len(n) > 4
    /\ n[1] = 95 /\ n[2] = 95 /\ n[Len(n)] = 95 /\ n[Len(n) - 1] = 95
    /\ n[3] # 95 /\ n[Len(n) - 2] # 95

NotDunder(e) == ~IsDunder(e[1])

\* line 74: PyEnum(nome_enum, membros).  Enum refuses a _sunder_ name and
\* the empty name with ValueError and takes a __dunder__ name for a plain
\* attribute, not a member.
PyEnum(d) ==
    IF \E i \in DOMAIN d : IsSunder(d[i][1]) \/ d[i][1] = <<>>
    THEN [raised |-> "ValueError", members |-> <<>>]
    ELSE [raised |-> "", members |-> SelectSeq(d, NotDunder)]

\* lines 63-74
criar_enum_dinamico(col) == PyEnum(Membros(col))

NoEnum == [raised |-> "none", members |-> <<>>]

----------------------------------------------------------------------------
(* SpecEnum: criar_enum_dinamico on one column *)

IdleDate ==
    /\ date_str = [kind |-> "nan", s |-> <<>>]
    /\ partes = <<>>
    /\ data = [raised |-> FALSE, date |-> <<>>]

\* no file read, nothing inferred, empty store, no query made
NoFile == [exists |-> FALSE, rows |-> <<>>]
NoEnums == [Sex |-> NoEnum, Designation |-> NoEnum, Unit |-> NoEnum]
NoRows == [raised |-> "none", rows |-> <<>>]
NoResult == [A |-> NoRows, B |-> NoRows, C |-> NoRows]

IdleScript ==
    /\ csv = NoFile /\ df = <<>> /\ enums = NoEnums /\ tabelas = {}
    /\ salaries = <<>> /\ result = NoResult /\ erro = "" /\ execucoes = 0

NoAnterior == <<<<>>, NoEnum>>

IdleEnum ==
    valores = <<>> /\ membros = <<>> /\ enum = NoEnum /\ anterior = NoAnterior

InitEnum ==
    /\ pc = <<"column", FALSE>>
    /\ valores \in Columns
    /\ membros = <<>>
    /\ enum = NoEnum
    /\ anterior = NoAnterior
    /\ IdleDate
    /\ IdleScript

\* one call of criar_enum_dinamico(nome_enum, valores)
Infer ==
    /\ pc[1] = "column"
    /\ membros' = Membros(valores)
    /\ enum' = criar_enum_dinamico(valores)
    /\ pc' = <<"enum", pc[2]>>
    /\ UNCHANGED <<valores, anterior, dateVars, scriptVars>>

\* the same distinct values arrive in another order
Swap ==
    /\ pc[1] = "enum" /\ ~pc[2]
    /\ \E i, j \in DOMAIN valores :
        /\ i < j
        /\ valores' = [valores EXCEPT ![i] = valores[j], ![j] = valores[i]]
    /\ anterior' = <<membros, enum>>
    /\ pc' = <<"column", TRUE>>
    /\ UNCHANGED <<membros, enum, dateVars, scriptVars>>

\* a value of the column arrives once more, or a missing cell is added
Repeat ==
    /\ pc[1] = "enum" /\ ~pc[2]
    /\ Len(valores) <= MaxCol
    /\ \E v \in {valores[i] : i \in DOMAIN valores} \cup {None} :
        valores' = Append(valores, v)
    /\ anterior' = <<membros, enum>>
    /\ pc' = <<"column", TRUE>>
    /\ UNCHANGED <<membros, enum, dateVars, scriptVars>>

\* the call is made again on the same column
Again ==
    /\ pc[1] = "enum" /\ ~pc[2]
    /\ anterior' = <<membros, enum>>
    /\ pc' = <<"column", TRUE>>
    /\ UNCHANGED <<valores, membros, enum, dateVars, scriptVars>>

NextEnum == Infer \/ Swap \/ Repeat \/ Again

SpecEnum == InitEnum /\ [][NextEnum]_vars

----------------------------------------------------------------------------
(* Claims about criar_enum_dinamico, checked under SpecEnum *)

Inferred == pc[1] = "enum"

\* the distinct non-missing raw values of the column
RawValues == {valores[i] : i \in {j \in DOMAIN valores : valores[j] # None}}

IsAscii(s) == \A i \in DOMAIN s : s[i] < 128

\* [A-Z_][A-Z0-9_]*
MatchesIdentifier(l) ==
    /\ l # <<>>
    /\ l[1] \in (65..90) \cup {95}
    /\ \A i \in DOMAIN l : l[i] \in (65..90) \cup (48..57) \cup {95}

\* C4 as stated: every label of the Enum produced matches [A-Z_][A-Z0-9_]*.
C4_EveryLabelMatches ==
    Inferred =>
        \A k \in DOMAIN enum.members : MatchesIdentifier(enum.members[k][1])

\* C4, amended: the label computed for a non-empty raw value made only of
\* ASCII characters matches [A-Z_][A-Z0-9_]*, and so does every member name
\* of the Enum produced from ASCII values.
C4_AsciiLabelMatches ==
    Inferred =>
        /\ \A k \in DOMAIN membros :
              (IsAscii(membros[k][2]) /\ membros[k][2] # <<>>)
                  => MatchesIdentifier(membros[k][1])
        /\ \A k \in DOMAIN enum.members :
              IsAscii(enum.members[k][2])
                  => MatchesIdentifier(enum.members[k][1])

\* the value "1a" has been given the label "_1A"
C4_Witness ==
    /\ Inferred
    /\ enum.raised = ""
    /\ \E k \in DOMAIN enum.members :
          enum.members[k] = <<(<<95, 49, 65>>), (<<49, 97>>)>>

\* the labels of the raw values, computed value by value
Labels == {Chave(v) : v \in RawValues}

Colliding(l) == {v \in RawValues : Chave(v) = l}

HasCollision == \E l \in Labels : Cardinality(Colliding(l)) > 1

C7_SameMappingForSameValues ==
    (Inferred /\ pc[2]) => <<membros, enum>> = anterior

\* a column with a collision was inferred again after its order changed
C7_Witness ==
    /\ Inferred
    /\ pc[2]
    /\ HasCollision
    /\ Len(valores) > 1
    /\ valores[1] = <<65, 45, 49>>
    /\ valores[2] = <<65, 32, 49>>
    /\ Len(anterior[1]) > 0

\* C10 as stated: each run of non-alphanumeric characters gives one "_" and
\* a leading digit is replaced.
C10_RunsCollapsed ==
    Inferred =>
        \A k \in DOMAIN membros :
            membros[k][1] = ChaveCollapsing(membros[k][2])

\* C10, amended: every character that is not a letter, digit or underscore
\* is replaced by its own "_", a "_" is put before a leading digit (the
\* digit stays), and the result is upper-cased.
C10_LabelPerCharacter ==
    Inferred =>
        \A k \in DOMAIN membros :
            LET l == membros[k][1]
                v == membros[k][2]
                off == IF v # <<>> /\ IsDigit(v[1]) THEN 1 ELSE 0
            IN  /\ Len(l) = Len(v) + off
                /\ off = 1 => l[1] = 95
                /\ \A i \in DOMAIN v :
                      l[i + off] = IF IsWord(v[i]) THEN UpperChar(v[i]) ELSE 95

\* "A--1" got the label "A__1"
C10_Witness ==
    /\ Inferred
    /\ \E k \in DOMAIN membros :
          membros[k] = <<(<<65, 95, 95, 49>>), (<<65, 45, 45, 49>>)>>

----------------------------------------------------------------------------
(* parse_date *)

\* A cell of a date column as pandas hands it to parse_date:
\*   kind "nan"       a missing cell
\*   kind "str"       text, s its characters
\*   kind "int"       a number, s = <<n>>
\*   kind "datetime"  a datetime instance, s = <<year, month, day, hour>>
NanCell == [kind |-> "nan", s |-> <<>>]
StrCell(s) == [kind |-> "str", s |-> s]
IntCell(n) == [kind |-> "int", s |-> <<n>>]
DatetimeCell(y, m, d, h) == [kind |-> "datetime", s |-> <<y, m, d, h>>]

\* str(n) for n >= 0
RECURSIVE DecimalDigits(_)
DecimalDigits(n) ==
    IF n < 10 THEN <<48 + n>>
    ELSE Append(DecimalDigits(n \div 10), 48 + (n % 10))

\* str(date_str)
Str(cell) == IF cell.kind = "int" THEN DecimalDigits(cell.s[1]) ELSE cell.s

\* int(w) for a field the directive matched: digits, perhaps after a space
RECURSIVE IntOf(_)
IntOf(w) ==
    IF w = <<>> THEN 0
    ELSE IF w[Len(w)] = 32 THEN IntOf(SubSeq(w, 1, Len(w) - 1))
    ELSE 10 * IntOf(SubSeq(w, 1, Len(w) - 1)) + (w[Len(w)] - 48)

\* %m: 1[0-2]|0[1-9]|[1-9]
MatchesMonth(w) ==
    \/ Len(w) = 2 /\ w[1] = 49 /\ w[2] \in 48..50
    \/ Len(w) = 2 /\ w[1] = 48 /\ w[2] \in 49..57
    \/ Len(w) = 1 /\ w[1] \in 49..57

\* %d: 3[0-1]|[1-2]\d|0[1-9]|[1-9]| [1-9]
MatchesDay(w) ==
    \/ Len(w) = 2 /\ w[1] = 51 /\ w[2] \in 48..49
    \/ Len(w) = 2 /\ w[1] \in 49..50 /\ w[2] \in 48..57
    \/ Len(w) = 2 /\ w[1] = 48 /\ w[2] \in 49..57
    \/ Len(w) = 1 /\ w[1] \in 49..57
    \/ Len(w) = 2 /\ w[1] = 32 /\ w[2] \in 49..57

\* %Y: \d\d\d\d
MatchesYear(w) == Len(w) = 4 /\ \A i \in 1..4 : w[i] \in 48..57

IsLeap(y) == y % 4 = 0 /\ (y % 100 # 0 \/ y % 400 = 0)

DaysInMonth(y, m) ==
    IF m = 2 THEN (IF IsLeap(y) THEN 29 ELSE 28)
    ELSE IF m \in {4, 6, 9, 11} THEN 30 ELSE 31

\* the splits of s as <month>/<day>/<year> that the compiled format matches
\* over the whole of s (strptime refuses unconverted data after the match)
FormatSplits(s) ==
    {p \in (1..2) \X (1..2) :
        /\ Len(s) = p[1] + p[2] + 6
        /\ MatchesMonth(SubSeq(s, 1, p[1]))
        /\ s[p[1] + 1] = 47
        /\ MatchesDay(SubSeq(s, p[1] + 2, p[1] + 1 + p[2]))
        /\ s[p[1] + p[2] + 2] = 47
        /\ MatchesYear(SubSeq(s, p[1] + p[2] + 3, Len(s)))}

\* line 95: datetime.strptime(str(date_str), "%m/%d/%Y").date();
\* ValueError when the text does not match the format or names no day of
\* the calendar (year 0, day beyond the month's last)
Strptime(s) ==
    IF FormatSplits(s) = {} THEN [raised |-> TRUE, date |-> None]
    ELSE LET p == CHOOSE q \in FormatSplits(s) : TRUE
             m == IntOf(SubSeq(s, 1, p[1]))
             d == IntOf(SubSeq(s, p[1] + 2, p[1] + 1 + p[2]))
             y == IntOf(SubSeq(s, p[1] + p[2] + 3, Len(s)))
         IN  IF y < 1 \/ d > DaysInMonth(y, m)
             THEN [raised |-> TRUE, date |-> None]
             ELSE [raised |-> FALSE, date |-> <<y, m, d>>]

\* variant: the call of strptime outside any try
parse_date_no_try(cell) ==
    IF cell.kind = "nan" THEN [raised |-> FALSE, date |-> None]
    ELSE IF cell.kind = "datetime"
         THEN [raised |-> FALSE, date |-> SubSeq(cell.s, 1, 3)]
    ELSE Strptime(Str(cell))

\* lines 85-97
parse_date(cell) ==
    IF cell.kind = "nan" THEN [raised |-> FALSE, date |-> None]
    ELSE IF cell.kind = "datetime"
         THEN [raised |-> FALSE, date |-> SubSeq(cell.s, 1, 3)]
    ELSE LET r == Strptime(Str(cell))
         IN  IF r.raised THEN [raised |-> FALSE, date |-> None] ELSE r

----------------------------------------------------------------------------
(* SpecDate: parse_date on one cell *)

\* "04", "4", "12", "13", "00", "02", "2"
MonthFields ==
    {<<48, 52>>, <<52>>, <<49, 50>>, <<49, 51>>, <<48, 48>>, <<48, 50>>, <<50>>}

\* "20", "5", "05", " 5", "29", "30", "31", "00", "32"
DayFields ==
    {<<50, 48>>, <<53>>, <<48, 53>>, <<32, 53>>, <<50, 57>>, <<51, 48>>,
     <<51, 49>>, <<48, 48>>, <<51, 50>>}

\* "2014", "2012", "1900", "2000", "14", "0000", "20145"
YearFields ==
    {<<50, 48, 49, 52>>, <<50, 48, 49, 50>>, <<49, 57, 48, 48>>,
     <<50, 48, 48, 48>>, <<49, 52>>, <<48, 48, 48, 48>>, <<50, 48, 49, 52, 53>>}

\* "/", "-"
Separators == {<<47>>, <<45>>}

\* "", " "
Leads == {<<>>, <<32>>}

\* "", " ", "x"
Tails == {<<>>, <<32>>, <<120>>}

NoPartes ==
    [lead |-> <<>>, m |-> <<>>, s1 |-> <<>>, d |-> <<>>, s2 |-> <<>>,
     y |-> <<>>, tail |-> <<>>]

Written ==
    [lead : Leads, m : MonthFields, s1 : Separators, d : DayFields,
     s2 : Separators, y : YearFields, tail : Tails]

TextOf(p) == p.lead \o p.m \o p.s1 \o p.d \o p.s2 \o p.y \o p.tail

OtherCells ==
    {NanCell, IntCell(5), IntCell(4202014), DatetimeCell(2014, 4, 20, 0),
     DatetimeCell(2012, 2, 29, 13)}

NoData == [raised |-> FALSE, date |-> <<>>]

InitDate ==
    /\ pc = <<"cell", FALSE>>
    /\ \/ partes \in Written /\ date_str = StrCell(TextOf(partes))
       \/ partes = NoPartes /\ date_str \in OtherCells
    /\ data = NoData
    /\ IdleEnum
    /\ IdleScript

\* one call of parse_date(date_str)
ParseDate ==
    /\ pc[1] = "cell"
    /\ data' = parse_date(date_str)
    /\ pc' = <<"date", FALSE>>
    /\ UNCHANGED <<date_str, partes, enumVars, scriptVars>>

NextDate == ParseDate

SpecDate == InitDate /\ [][NextDate]_vars

----------------------------------------------------------------------------
(* Claims about parse_date, checked under SpecDate *)

Parsed == pc[1] = "date"

AllDigits(w) == \A i \in DOMAIN w : w[i] \in 48..57

\* the cell is text written as month/day/year: a month of one or two digits
\* from 1 to 12, "/", a day of one or two digits (or a space and a digit)
\* that exists in that month, "/", a year of four digits from 0001 on, and
\* nothing before or after
WrittenAsDate ==
    /\ date_str.kind = "str"
    /\ partes.lead = <<>> /\ partes.tail = <<>>
    /\ partes.s1 = <<47>> /\ partes.s2 = <<47>>
    /\ Len(partes.m) \in 1..2 /\ AllDigits(partes.m)
    /\ IntOf(partes.m) \in 1..12
    /\ \/ Len(partes.d) \in 1..2 /\ AllDigits(partes.d)
       \/ Len(partes.d) = 2 /\ partes.d[1] = 32 /\ partes.d[2] \in 49..57
    /\ Len(partes.y) = 4 /\ AllDigits(partes.y)
    /\ IntOf(partes.y) >= 1
    /\ IntOf(partes.d) \in 1..DaysInMonth(IntOf(partes.y), IntOf(partes.m))

\* C6: parse_date never raises; "04/20/2014" gives 2014-04-20 and any text
\* written as month/day/year gives that date; a missing cell and text (or a
\* number) that is not written so both give None.
C6_ParseDateLenient ==
    Parsed =>
        /\ ~data.raised
        /\ date_str = StrCell(<<48, 52, 47, 50, 48, 47, 50, 48, 49, 52>>)
              => data.date = <<2014, 4, 20>>
        /\ WrittenAsDate
              => data.date =
                    <<IntOf(partes.y), IntOf(partes.m), IntOf(partes.d)>>
        /\ date_str.kind = "nan" => data.date = None
        /\ (date_str.kind \in {"str", "int"} /\ ~WrittenAsDate)
              => data.date = None
        /\ date_str.kind = "datetime"
              => data.date = SubSeq(date_str.s, 1, 3)

\* "04/20/2014" was parsed to 2014-04-20
C6_Witness ==
    /\ Parsed
    /\ date_str = StrCell(<<48, 52, 47, 50, 48, 47, 50, 48, 49, 52>>)
    /\ data = [raised |-> FALSE, date |-> <<2014, 4, 20>>]

----------------------------------------------------------------------------
(* The script: rows, store, queries *)

\* NaN in a cell of numbers
NaN == -1

TextColumns == {"FIRST_NAME", "LAST_NAME", "SEX", "DESIGNATION", "UNIT"}
DateColumns == {"DOJ", "CURRENT_DATE"}
NumberColumns ==
    {"AGE", "SALARY", "LEAVES_USED", "LEAVES_REMAINING", "RATINGS", "PAST_EXP"}
CsvColumns == TextColumns \cup DateColumns \cup NumberColumns

\* the missing value of a column
Missing(f) == IF f \in NumberColumns THEN NaN ELSE None

\* "Manager", "HR", "A-1", "A 1"
Designations ==
    { <<77, 97, 110, 97, 103, 101, 114>>, <<72, 82>>,
      <<65, 45, 49>>, <<65, 32, 49>> }

Salaries == {60000, 120000}

\* a complete line of the file: Ana Silva, F, 04/20/2014, 01/07/2016, ...
FullRow(designation, salary) ==
    [ FIRST_NAME |-> <<65, 110, 97>>,
      LAST_NAME |-> <<83, 105, 108, 118, 97>>,
      SEX |-> <<70>>,
      DOJ |-> <<48, 52, 47, 50, 48, 47, 50, 48, 49, 52>>,
      CURRENT_DATE |-> <<48, 49, 47, 48, 55, 47, 50, 48, 49, 54>>,
      DESIGNATION |-> designation,
      AGE |-> 30,
      SALARY |-> salary,
      UNIT |-> <<73, 84>>,
      LEAVES_USED |-> 5,
      LEAVES_REMAINING |-> 25,
      RATINGS |-> 4,
      PAST_EXP |-> 2 ]

\* the lines a file is made of: complete ones, one with each field in turn
\* left empty, and one whose DOJ is "02/30/2014"
FileRows ==
    {FullRow(d, s) : d \in Designations, s \in Salaries}
    \cup {[FullRow(<<72, 82>>, 60000) EXCEPT ![f] = Missing(f)] :
            f \in CsvColumns}
    \cup {[FullRow(<<72, 82>>, 60000) EXCEPT
              !.DOJ = <<48, 50, 47, 51, 48, 47, 50, 48, 49, 52>>]}

RECURSIVE FilesOfLen(_)
FilesOfLen(n) ==
    IF n = 0 THEN {<<>>}
    ELSE {Append(rows, r) : rows \in FilesOfLen(n - 1), r \in FileRows}

Files ==
    {NoFile} \cup
    {[exists |-> TRUE, rows |-> rows] :
        rows \in UNION {FilesOfLen(n) : n \in 1..MaxRows}}

\* df[f]: one column of the DataFrame
ColumnOf(frame, f) == [i \in DOMAIN frame |-> frame[i][f]]

\* lines 164-168: df[f] = df[f].apply(parse_date), for text or missing cells
CellOf(v) == IF v = None THEN NanCell ELSE StrCell(v)

ApplyParseDate(frame) ==
    [i \in DOMAIN frame |->
        [frame[i] EXCEPT !.DOJ = parse_date(CellOf(@)).date,
                         !.CURRENT_DATE = parse_date(CellOf(@)).date]]

\* the table declares nullable=False for these columns only as the claims
\* have it
NotNullAsClaimed == {"SEX", "DESIGNATION", "SALARY", "UNIT"}

\* lines 111-131: the columns declared nullable=False
NotNullColumns ==
    {"FIRST_NAME", "LAST_NAME", "SEX", "DESIGNATION", "SALARY", "UNIT"}

\* NOT NULL constraint failed
ViolatesNotNull(row) == \E f \in NotNullColumns : row[f] = Missing(f)

\* line 109: id INTEGER PRIMARY KEY: one more than the largest id in use
NextId(table) ==
    IF table = <<>> THEN 1
    ELSE 1 + (CHOOSE m \in {table[i].id : i \in DOMAIN table} :
                 \A i \in DOMAIN table : table[i].id <= m)

RECURSIVE InsertFrom(_, _, _)
InsertFrom(table, frame, i) ==
    IF i > Len(frame) THEN table
    ELSE InsertFrom(Append(table, [id |-> NextId(table)] @@ frame[i]),
                    frame, i + 1)

\* variant: if_exists="replace"
ToSqlReplace(table, frame) == InsertFrom(<<>>, frame, 1)

\* lines 174-179: df.to_sql(..., if_exists="append", index=False)
ToSqlAppend(table, frame) == InsertFrom(table, frame, 1)

(* exact fractions <<numerator, denominator>> stand for the REAL values *)
RECURSIVE GCD(_, _)
GCD(a, b) == IF b = 0 THEN a ELSE GCD(b, a % b)

Frac(n, d) == LET g == GCD(n, d) IN <<n \div g, d \div g>>
FracLess(a, b) == a[1] * b[2] < b[1] * a[2]
FracAdd(a, b) == Frac(a[1] * b[2] + b[1] * a[2], a[2] * b[2])

\* "SALARY" / 12.0
MonthlyAnnual(row) == Frac(row.SALARY, 1)
Monthly(row) == Frac(row.SALARY, 12)

\* the rows of one group, as positions in the table
GroupOf(table, g) == {i \in DOMAIN table : table[i].DESIGNATION = g}

RECURSIVE SumOver(_, _)
SumOver(table, I) ==
    IF I = {} THEN <<0, 1>>
    ELSE LET i == CHOOSE j \in I : TRUE
         IN  FracAdd(Monthly(table[i]), SumOver(table, I \ {i}))

\* MIN(...), MAX(...), AVG(...) over one group
MinOver(table, I) ==
    CHOOSE x \in {Monthly(table[i]) : i \in I} :
        \A i \in I : ~FracLess(Monthly(table[i]), x)
MaxOver(table, I) ==
    CHOOSE x \in {Monthly(table[i]) : i \in I} :
        \A i \in I : ~FracLess(x, Monthly(table[i]))
AvgOver(table, I) ==
    LET sum == SumOver(table, I) IN Frac(sum[1], sum[2] * Cardinality(I))

\* GROUP BY "DESIGNATION": one row per stored value
GroupRow(table, g) ==
    [ designation |-> g,
      min_monthly_salary |-> MinOver(table, GroupOf(table, g)),
      max_monthly_salary |-> MaxOver(table, GroupOf(table, g)),
      avg_monthly_salary |-> AvgOver(table, GroupOf(table, g)) ]

\* ORDER BY avg_monthly_salary DESC; SQLite leaves the order of equal
\* averages open: the grouping order (ascending key) is taken here
ComesFirst(a, b) ==
    \/ FracLess(b.avg_monthly_salary, a.avg_monthly_salary)
    \/ /\ a.avg_monthly_salary = b.avg_monthly_salary
       /\ StrLess(a.designation, b.designation)

ComesFirstAscending(a, b) ==
    \/ FracLess(a.avg_monthly_salary, b.avg_monthly_salary)
    \/ /\ a.avg_monthly_salary = b.avg_monthly_salary
       /\ StrLess(a.designation, b.designation)

RECURSIVE OrderBy(_)
OrderBy(S) ==
    IF S = {} THEN <<>>
    ELSE LET r == CHOOSE x \in S : \A y \in S \ {x} : ComesFirst(x, y)
         IN  <<r>> \o OrderBy(S \ {r})

\* lines 193-202 (and 229-238): the statement, run by SQLite
Select(table) ==
    OrderBy({GroupRow(table, g) :
                g \in {table[i].DESIGNATION : i \in DOMAIN table}})

\* a str in a result row
AsStr(v) == [kind |-> "str", v |-> v]
\* a member of an Enum class in a result row, by its name
AsMember(name) == [kind |-> "member", v |-> name]

\* lines 205-206 and 218-219: the designation comes back as stored
QuerySql(table) ==
    LET rows == Select(table)
    IN  [ raised |-> "",
          rows |-> [i \in DOMAIN rows |->
                      [rows[i] EXCEPT !.designation = AsStr(@)]] ]

\* lines 119-121 and 229-241: the column is SAEnum(DesignationEnum), which
\* reads a stored string as the NAME of a member and raises LookupError for
\* a string that names none
QueryOrm(table, e) ==
    LET names == {e.members[k][1] : k \in DOMAIN e.members}
        rows == Select(table)
    IN  IF \E i \in DOMAIN rows : rows[i].designation \notin names
        THEN [raised |-> "LookupError", rows |-> <<>>]
        ELSE [ raised |-> "",
               rows |-> [i \in DOMAIN rows |->
                           [rows[i] EXCEPT !.designation = AsMember(@)]] ]

----------------------------------------------------------------------------
(* Spec: the script, started up to MaxRuns times on the same salarios.db *)

Init ==
    /\ pc = <<"start", FALSE>>
    /\ csv \in Files
    /\ df = <<>>
    /\ enums = NoEnums
    /\ tabelas = {}
    /\ salaries = <<>>
    /\ result = NoResult
    /\ erro = ""
    /\ execucoes = 1
    /\ IdleEnum
    /\ IdleDate

Abort(e) == pc' = <<"aborted", FALSE>> /\ erro' = e

\* line 48: df = pd.read_csv(CSV_PATH)
ReadCsv ==
    /\ pc[1] = "start"
    /\ IF csv.exists
       THEN /\ df' = csv.rows
            /\ pc' = <<"loaded", FALSE>>
            /\ UNCHANGED erro
       ELSE /\ Abort("FileNotFoundError")
            /\ UNCHANGED df
    /\ UNCHANGED <<csv, enums, tabelas, salaries, result, execucoes,
                   enumVars, dateVars>>

\* lines 78-80: the three Enum classes
CriarEnums ==
    /\ pc[1] = "loaded"
    /\ LET sex == criar_enum_dinamico(ColumnOf(df, "SEX"))
           designation == criar_enum_dinamico(ColumnOf(df, "DESIGNATION"))
           unit == criar_enum_dinamico(ColumnOf(df, "UNIT"))
       IN  IF sex.raised # "" \/ designation.raised # "" \/ unit.raised # ""
           THEN /\ Abort("ValueError")
                /\ UNCHANGED enums
           ELSE /\ enums' = [Sex |-> sex, Designation |-> designation,
                             Unit |-> unit]
                /\ pc' = <<"modelled", FALSE>>
                /\ UNCHANGED erro
    /\ UNCHANGED <<csv, df, tabelas, salaries, result, execucoes,
                   enumVars, dateVars>>

\* line 154: Base.metadata.create_all(engine) creates what is not there
CreateAll ==
    /\ pc[1] = "modelled"
    /\ tabelas' = tabelas \cup {"salaries"}
    /\ pc' = <<"created", FALSE>>
    /\ UNCHANGED <<csv, df, enums, salaries, result, erro, execucoes,
                   enumVars, dateVars>>

\* lines 164-168: the two date columns through parse_date
ConvertDates ==
    /\ pc[1] = "created"
    /\ df' = ApplyParseDate(df)
    /\ pc' = <<"converted", FALSE>>
    /\ UNCHANGED <<csv, enums, tabelas, salaries, result, erro, execucoes,
                   enumVars, dateVars>>

\* lines 174-179: one transaction; a row SQLite refuses rolls it back and
\* IntegrityError ends the script
ToSql ==
    /\ pc[1] = "converted"
    /\ IF \E i \in DOMAIN df : ViolatesNotNull(df[i])
       THEN /\ Abort("IntegrityError")
            /\ UNCHANGED salaries
       ELSE /\ salaries' = ToSqlAppend(salaries, df)
            /\ pc' = <<"populated", FALSE>>
            /\ UNCHANGED erro
    /\ UNCHANGED <<csv, df, enums, tabelas, result, execucoes,
                   enumVars, dateVars>>

\* lines 205-213: conn.execute(text(query_sql))
QueryA ==
    /\ pc[1] = "populated"
    /\ result' = [result EXCEPT !.A = QuerySql(salaries)]
    /\ pc' = <<"queriedA", FALSE>>
    /\ UNCHANGED <<csv, df, enums, tabelas, salaries, erro, execucoes,
                   enumVars, dateVars>>

\* lines 218-221: pd.read_sql_query(query_sql, conn)
QueryB ==
    /\ pc[1] = "queriedA"
    /\ result' = [result EXCEPT !.B = QuerySql(salaries)]
    /\ pc' = <<"queriedB", FALSE>>
    /\ UNCHANGED <<csv, df, enums, tabelas, salaries, erro, execucoes,
                   enumVars, dateVars>>

\* lines 229-250: session.execute(stmt).all()
QueryC ==
    /\ pc[1] = "queriedB"
    /\ LET r == QueryOrm(salaries, enums.Designation)
       IN  /\ result' = [result EXCEPT !.C = r]
           /\ IF r.raised # ""
              THEN Abort(r.raised)
              ELSE pc' = <<"done", FALSE>> /\ UNCHANGED erro
    /\ UNCHANGED <<csv, df, enums, tabelas, salaries, execucoes,
                   enumVars, dateVars>>

\* python main.py once more: a new process, the same files
RunAgain ==
    /\ pc[1] \in {"done", "aborted"}
    /\ execucoes < MaxRuns
    /\ execucoes' = execucoes + 1
    /\ pc' = <<"start", FALSE>>
    /\ df' = <<>>
    /\ enums' = NoEnums
    /\ result' = NoResult
    /\ erro' = ""
    /\ UNCHANGED <<csv, tabelas, salaries, enumVars, dateVars>>

Next ==
    \/ ReadCsv
    \/ CriarEnums
    \/ CreateAll
    \/ ConvertDates
    \/ ToSql
    \/ QueryA
    \/ QueryB
    \/ QueryC
    \/ RunAgain

Spec == Init /\ [][Next]_vars

----------------------------------------------------------------------------
(* Claims about the script, checked under Spec *)

\* to_sql has returned in this run
Populated ==
    \/ pc[1] \in {"populated", "queriedA", "queriedB", "done"}
    \/ pc[1] = "aborted" /\ erro = "LookupError"

\* the rows this run's to_sql has added
AddedRows == (Len(salaries) - Len(df) + 1)..Len(salaries)

\* C1: whatever the table holds, the three queries all complete and return
\* the same ordered rows, the designation being the stored string in each.
C1_ThreePathsAgree ==
    (pc[1] = "done" \/ (pc[1] = "aborted" /\ result.B.raised = "")) =>
        /\ result.C.raised = ""
        /\ result.B = result.A
        /\ result.C = result.A

StoredDesignations == {salaries[i].DESIGNATION : i \in DOMAIN salaries}

RECURSIVE SalarySum(_)
SalarySum(I) ==
    IF I = {} THEN 0
    ELSE LET i == CHOOSE j \in I : TRUE
         IN  salaries[i].SALARY + SalarySum(I \ {i})

\* x = <<n, d>> is the least (greatest) of SALARY / 12 over the rows I
IsMinOf(x, I) ==
    /\ \E i \in I : 12 * x[1] = salaries[i].SALARY * x[2]
    /\ \A i \in I : 12 * x[1] <= salaries[i].SALARY * x[2]
IsMaxOf(x, I) ==
    /\ \E i \in I : 12 * x[1] = salaries[i].SALARY * x[2]
    /\ \A i \in I : 12 * x[1] >= salaries[i].SALARY * x[2]
\* x = <<n, d>> is the arithmetic mean of SALARY / 12 over the rows I
IsMeanOf(x, I) == 12 * Cardinality(I) * x[1] = SalarySum(I) * x[2]

\* the table is the two rows (Manager, 120000) and (Manager, 60000)
TwoManagers ==
    /\ Len(salaries) = 2
    /\ \A i \in 1..2 :
          salaries[i].DESIGNATION = <<77, 97, 110, 97, 103, 101, 114>>
    /\ {salaries[1].SALARY, salaries[2].SALARY} = {120000, 60000}

\* C2: the query returns exactly one row per designation stored, with the
\* minimum, maximum and mean of SALARY / 12 over the rows of that
\* designation, in non-increasing order of the mean; (Manager, 120000) and
\* (Manager, 60000) give min 5000, max 10000, avg 7500.
C2_AggregationPerDesignation ==
    result.A.raised = "" =>
        LET rows == result.A.rows
        IN  /\ Len(rows) = Cardinality(StoredDesignations)
            /\ \A g \in StoredDesignations :
                  \E k \in DOMAIN rows :
                      LET I == {i \in DOMAIN salaries :
                                   salaries[i].DESIGNATION = g}
                      IN  /\ rows[k].designation = AsStr(g)
                          /\ IsMinOf(rows[k].min_monthly_salary, I)
                          /\ IsMaxOf(rows[k].max_monthly_salary, I)
                          /\ IsMeanOf(rows[k].avg_monthly_salary, I)
            /\ \A i, j \in DOMAIN rows :
                  i < j =>
                      rows[i].avg_monthly_salary[1]
                          * rows[j].avg_monthly_salary[2]
                      >= rows[j].avg_monthly_salary[1]
                          * rows[i].avg_monthly_salary[2]
            /\ TwoManagers =>
                  rows = << [ designation |->
                                AsStr(<<77, 97, 110, 97, 103, 101, 114>>),
                              min_monthly_salary |-> <<5000, 1>>,
                              max_monthly_salary |-> <<10000, 1>>,
                              avg_monthly_salary |-> <<7500, 1>> ] >>

\* the two Manager rows were aggregated
C2_Witness ==
    /\ result.A.raised = ""
    /\ TwoManagers
    /\ Len(result.A.rows) = 1
    /\ result.A.rows[1].avg_monthly_salary = <<7500, 1>>

Ids(table) == {table[i].id : i \in DOMAIN table}

\* C3: to_sql adds exactly the rows of the DataFrame, each under an id no
\* row had, and leaves the rows already stored as they were; nothing else
\* changes the table; after the k-th run has populated the table it holds
\* k times the rows of the file, under pairwise distinct ids.
C3_AppendOnly ==
    /\ [][ (pc[1] = "converted" /\ pc'[1] = "populated") =>
              /\ Len(salaries') = Len(salaries) + Len(df)
              /\ SubSeq(salaries', 1, Len(salaries)) = salaries
              /\ \A i \in (Len(salaries) + 1)..Len(salaries') :
                    /\ salaries'[i].id \notin Ids(salaries)
                    /\ \A f \in CsvColumns :
                          salaries'[i][f] = df[i - Len(salaries)][f] ]_vars
    /\ [][ salaries' # salaries =>
              (pc[1] = "converted" /\ pc'[1] = "populated") ]_vars
    /\ [](Populated => Len(salaries) = execucoes * Len(csv.rows))
    /\ [](\A i, j \in DOMAIN salaries :
              salaries[i].id = salaries[j].id => i = j)

\* the second run has appended two more rows to the two of the first
C3_Witness ==
    /\ pc[1] = "populated"
    /\ execucoes = 2
    /\ Len(df) = 2
    /\ Len(salaries) = 4
    /\ Ids(salaries) = 1..4

\* C8 as stated: a DataFrame whose rows all have salary, sex, designation
\* and unit is accepted by to_sql, whatever else is missing.
C8_OnlyFourRequired ==
    (pc[1] = "aborted" /\ erro = "IntegrityError") =>
        \E i \in DOMAIN df :
            \E f \in {"SALARY", "SEX", "DESIGNATION", "UNIT"} :
                df[i][f] = Missing(f)

RequiredColumns ==
    {"SALARY", "SEX", "DESIGNATION", "UNIT", "FIRST_NAME", "LAST_NAME"}

\* C8, amended: salary, the three categorical fields, first name and last
\* name are required.  to_sql accepts a DataFrame exactly when no row lacks
\* one of these six, and then stores every row with None / NaN where a
\* date, age, leaves, rating or experience is missing; no stored row ever
\* lacks one of the six.
C8_SixRequired ==
    /\ (pc[1] = "aborted" /\ erro = "IntegrityError") =>
          \E i \in DOMAIN df :
              \E f \in RequiredColumns : df[i][f] = Missing(f)
    /\ pc[1] = "populated" =>
          /\ \A i \in DOMAIN df :
                \A f \in RequiredColumns : df[i][f] # Missing(f)
          /\ \A i \in AddedRows :
                \A f \in CsvColumns :
                    salaries[i][f] = df[i - (Len(salaries) - Len(df))][f]
    /\ \A i \in DOMAIN salaries :
          \A f \in RequiredColumns : salaries[i][f] # Missing(f)

\* a row without AGE and a row without DOJ have been stored
C8_Witness ==
    /\ pc[1] = "populated"
    /\ \E i \in AddedRows : salaries[i].AGE = NaN
    /\ \E i \in AddedRows : salaries[i].DOJ = None

ValuesOf(e) == {e.members[k][2] : k \in DOMAIN e.members}

\* C9: every row the run has stored has its SEX, DESIGNATION and UNIT among
\* the values of the Enum inferred from the same column.
C9_StoredWithinDomain ==
    pc[1] = "populated" =>
        \A i \in AddedRows :
            /\ salaries[i].SEX \in ValuesOf(enums.Sex)
            /\ salaries[i].DESIGNATION \in ValuesOf(enums.Designation)
            /\ salaries[i].UNIT \in ValuesOf(enums.Unit)

====
